---- MODULE Spec2Model ----
(***************************************************************************)
(* Model of iroh-bytes/src/provider/database.rs: the Database index        *)
(* (hash -> DbEntry behind Arc<RwLock<..>>), its snapshot persistence      *)
(* (Snapshot::persist / Snapshot::load / Database::from_snapshot) and the  *)
(* validation sweep Database::validate0.                                   *)
(***************************************************************************)
EXTENDS Integers, Sequences, FiniteSets, TLC

(***************************************************************************)
(* Bounds of the model.                                                    *)
(***************************************************************************)
\* number of distinct contents (hence of distinct hashes)
MaxContent == 3
\* number of distinct external file paths; a path is its rank in PathBuf's order
MaxPath == 2
\* num_cpus::get(): the width of buffer_unordered
Workers == 2
\* capacity of the bounded mpsc progress channel handed to validate
Capacity == 2
\* number of progress callbacks validate_bao makes for one entry
MaxOffset == 1
\* number of Database handles (clones of the Arc)
MaxHandles == 2
\* number of times the environment changes a file behind the store's back
MaxTamper == 1
\* number of persists into the one data directory
MaxPersist == 2
\* number of interrupted persists, and of changes made to the data directory
\* from outside
MaxFault == 1

(***************************************************************************)
(* Program constants.                                                      *)
(***************************************************************************)
\* parse_hash: let hash: [u8; 32] = hash.try_into()
HashLen == 32

Contents == 1..MaxContent
Paths == 1..MaxPath
\* Option<PathBuf>::None; None orders before every Some(path)
NoPath == 0
\* a file that does not exist
Missing == 0
\* Option::None of an Option<String>
None == "none"
\* Option::None of an Option<DbEntry>
NoEntry == [kind |-> "None", outboard |-> 0, path |-> 0, size |-> 0, data |-> 0]

(***************************************************************************)
(* Content identity.  The hash and the outboard of a content come from     *)
(* bao_tree::outboard(data, IROH_BLOCK_SIZE): a deterministic, injective   *)
(* digest.  Hash order is the byte order of the 32 bytes.                  *)
(***************************************************************************)
HashOf(c) == (7 * c) % 11

OutboardOf(c) == 100 + c

SizeOf(c) == 2 * c

Hashes == {HashOf(c) : c \in Contents}

ContentOfHash(h) == CHOOSE c \in Contents : HashOf(c) = h

\* the 32 bytes of each digest value
DigestBytes == [h \in 0..11 |-> [i \in 1..HashLen |-> (h * 31 + i * 17) % 256]]

\* Hash::as_ref(): the 32 bytes of a hash
HashBytes(h) == DigestBytes[h]

RECURSIVE SeqLess(_, _)
\* lexicographic order of two byte sequences ([u8; 32] as Ord)
SeqLess(a, b) ==
    IF a = <<>> THEN b # <<>>
    ELSE IF b = <<>> THEN FALSE
    ELSE IF Head(a) # Head(b) THEN Head(a) < Head(b)
    ELSE SeqLess(Tail(a), Tail(b))

\* the byte order of every two digest values
DigestOrder == [a \in 0..11, b \in 0..11 |-> SeqLess(DigestBytes[a], DigestBytes[b])]

\* Ord for Hash
HashLess(a, b) == DigestOrder[a, b]

(***************************************************************************)
(* DbEntry (super::DbEntry) and its helpers.                               *)
(***************************************************************************)
External(ob, p, sz) == [kind |-> "External", outboard |-> ob, path |-> p, size |-> sz, data |-> 0]

Internal(ob, d) == [kind |-> "Internal", outboard |-> ob, path |-> NoPath, size |-> 0, data |-> d]

is_external(e) == e.kind = "External"

blob_path(e) == IF e.kind = "External" THEN e.path ELSE NoPath

\* DbEntry::size: the declared size of an external entry, the buffer length otherwise
entry_size(e) == IF e.kind = "External" THEN e.size ELSE SizeOf(e.data)

\* the in-memory entry and the on-disk entry (at path p) of content c
GoodInternal(c) == Internal(OutboardOf(c), c)

GoodExternal(c, p) == External(OutboardOf(c), p, SizeOf(c))

\* an in-memory buffer that does not belong to its hash: nothing in
\* union_with checks an entry against its key
BadInternal(c) == Internal(OutboardOf(c), (c % MaxContent) + 1)

\* HashMap<Hash, DbEntry> values: for each content of a subset of S, one of
\* the entries F gives for it, under the content's hash
MapsOver(S, F) ==
    UNION {{m \in [{HashOf(c) : c \in D} -> UNION {F[c] : c \in D}] :
                \A h \in DOMAIN m : m[h] \in F[ContentOfHash(h)]} : D \in SUBSET S}

EmptyMap == [h \in {} |-> 0]

RECURSIVE Perms(_)
\* every order in which a HashMap may iterate, or fs::read_dir list, the elements of S
Perms(S) ==
    IF S = {} THEN {<<>>}
    ELSE UNION {{<<x>> \o q : q \in Perms(S \ {x})} : x \in S}

VARIABLES
    db,         \* the shared HashMap<Hash, DbEntry> behind Arc<RwLock<..>>
    handles,    \* the live Database handles, all clones of one Arc
    lastUnion,  \* the map given to the latest union_with, and the handle used
    lock,       \* the operations that hold the read side of the RwLock
    memArc,     \* InMemDatabase handle -> the Arc it holds, 0 when not live
    memMaps,    \* Arc -> the HashMap<Hash, (outboard, data)> it owns
    lastInsert, \* the latest insert through a handle still live: handle, content, hash
    fs,         \* the files external entries point to: path -> content or Missing
    tampers,    \* how many times a file was changed behind the store's back
    result,     \* validate0: "idle", "starting", "running", then "ok", "err" or "panic"
    data,       \* validate0's sorted copy of the index: id + 1 -> [hash, entry]
    copied,     \* the index as it was when validate0 copied it
    pc,         \* id + 1 -> where the entry's future / blocking task stands
    off,        \* id + 1 -> offset reached by the entry's verification
    werr,       \* id + 1 -> res.err() of the entry's verification, or "panicked"
    sent,       \* every message the channel accepted, in order
    nrecv,      \* how many of them the receiver has taken
    rx,         \* the receiving end: "open" or "closed"
    dir,        \* the data directory: outboards/, collections/ and the paths file
    saved,      \* to_inner() of the store at its latest save into the directory
    npersist,   \* how many saves the directory has received
    pending,    \* the Snapshot a save has taken and not yet persisted, if any
    building,   \* the Snapshot a running snapshot() call has built so far
    given,      \* the Snapshot from_snapshot is called with, if any
    faults,     \* how many persists were interrupted, how many outside changes made
    loaded,     \* the outcome of the latest load of the directory
    capacity,   \* the capacity of the channel the caller of validate has created
    num_cpus    \* num_cpus::get(): how many futures buffer_unordered keeps in flight

memVars == <<memArc, memMaps, lastInsert>>

storeVars == <<db, handles, lastUnion, lock, memVars>>

poolVars == <<capacity, num_cpus>>

sweepVars == <<poolVars, fs, tampers, result, data, copied, pc, off, werr, sent, nrecv, rx>>

diskVars == <<dir, saved, npersist, pending, building, given, faults, loaded>>

vars == <<db, handles, lastUnion, lock, memArc, memMaps, lastInsert, fs, tampers, result, data, copied, pc, off,
          werr, sent, nrecv, rx, dir, saved, npersist, pending, building, given, faults,
          loaded, capacity, num_cpus>>

(***************************************************************************)
(* Database: get, union_with, Clone.                                       *)
(***************************************************************************)
\* Database::get: a clone of the entry, or None
get(inner, key) == IF key \in DOMAIN inner THEN inner[key] ELSE NoEntry

\* union_with that replaces an entry already present (HashMap::insert)
union_with_insert(inner, m) ==
    [k \in DOMAIN inner \cup DOMAIN m |-> IF k \in DOMAIN m THEN m[k] ELSE inner[k]]

\* Database::union_with: inner.entry(k).or_insert(v) for every (k, v) of m
union_with(inner, m) ==
    [k \in DOMAIN inner \cup DOMAIN m |-> IF k \in DOMAIN inner THEN inner[k] ELSE m[k]]

\* every map a caller of the store specification hands to union_with
StoreEntries == [c \in Contents |-> {GoodInternal(c), GoodExternal(c, 1)}]

StoreInputs == MapsOver(Contents, StoreEntries)

\* #[derive(Clone)] on Database: another handle of the same Arc
CloneHandle(hd) ==
    /\ hd \in handles
    /\ \E n \in (1..MaxHandles) \ handles : handles' = handles \cup {n}
    /\ UNCHANGED <<db, lastUnion, lock, memVars, sweepVars, diskVars>>

\* dropping a handle that is not the last one
DropHandle(hd) ==
    /\ hd \in handles
    /\ handles # {hd}
    /\ handles' = handles \ {hd}
    /\ UNCHANGED <<db, lastUnion, lock, memVars, sweepVars, diskVars>>

\* self.union_with(m) through handle hd, under the write lock, which is
\* granted when no operation holds the read side
UnionWith(hd, m) ==
    /\ hd \in handles
    /\ lock = {}
    /\ db' = union_with(db, m)
    /\ lastUnion' = [handle |-> hd, map |-> m]
    /\ UNCHANGED <<handles, lock, memVars, sweepVars, diskVars>>

\* the bytes of a file that fs::write has created or truncated, and not yet filled
Truncated == -1

\* the bytes of a file that cannot be read: fs::read returns an io::Error
Unreadable == -2

\* a file of a directory, with its bytes
File(b) == [is_dir |-> FALSE, bytes |-> b]

\* a subdirectory of a directory
Subdir == [is_dir |-> TRUE, bytes |-> 0]

\* a data directory that was never written to
NoDir == [exists |-> FALSE, outboards |-> EmptyMap, collections |-> EmptyMap,
          paths |-> [exists |-> FALSE, bytes |-> <<>>]]

\* no snapshot() call under way
NoBuild == [step |-> 0, outboards |-> <<>>, collections |-> <<>>, paths |-> <<>>]

\* no directory written, nothing saved or loaded yet
DiskIdle ==
    /\ dir = NoDir
    /\ saved = EmptyMap
    /\ npersist = 0
    /\ pending = <<>>
    /\ building = NoBuild
    /\ given = <<>>
    /\ faults = [crash |-> 0, damage |-> 0]
    /\ loaded = [status |-> "none", error |-> None, db |-> EmptyMap, of |-> EmptyMap,
                 first |-> FALSE, again |-> FALSE, from |-> NoDir]

\* InMemDatabase::default(): one handle, holding an Arc of an empty map
MemIdle ==
    /\ memArc = [hd \in 1..MaxHandles |-> IF hd = 1 THEN 1 ELSE 0]
    /\ memMaps = [a \in 1..MaxHandles |-> EmptyMap]
    /\ lastInsert = [handle |-> 0, data |-> 0, hash |-> 0]

\* the files as they are when the store is built: path 1 holds content 1,
\* every other path the last content
InitFile(p) == IF p = 1 THEN 1 ELSE MaxContent

\* no validation running, an empty open channel, untouched files
SweepIdle ==
    /\ capacity = Capacity
    /\ num_cpus = Workers
    /\ fs = [p \in Paths |-> InitFile(p)]
    /\ tampers = 0
    /\ result = "idle"
    /\ data = <<>>
    /\ copied = EmptyMap
    /\ pc = <<>>
    /\ off = <<>>
    /\ werr = <<>>
    /\ sent = <<>>
    /\ nrecv = 0
    /\ rx = "open"

StoreInit ==
    /\ db = EmptyMap
    /\ handles = {1}
    /\ lastUnion = [handle |-> 1, map |-> EmptyMap]
    /\ lock = {}
    /\ SweepIdle
    /\ DiskIdle
    /\ MemIdle

StoreNext ==
    \/ \E hd \in 1..MaxHandles : CloneHandle(hd)
    \/ \E hd \in 1..MaxHandles : DropHandle(hd)
    \/ \E hd \in 1..MaxHandles : \E m \in StoreInputs : UnionWith(hd, m)

SpecStore == StoreInit /\ [][StoreNext]_vars

\* C1: merge non-destructiveness.  A hash present with entry X keeps
\* get(h) = X across every step of the store, whatever handle issues the
\* union_with and whatever the merged map holds for h; the step adds exactly
\* the keys of the merged map that were absent, with the merged map's entries.
C1_MergeNonDestructive ==
    [][/\ \A h \in Hashes :
            get(db, h) # NoEntry => get(db', h) = get(db, h)
       /\ db' # db =>
            /\ DOMAIN db' = DOMAIN db \cup DOMAIN lastUnion'.map
            /\ \A h \in DOMAIN db' \ DOMAIN db : get(db', h) = lastUnion'.map[h]]_vars

\* a union_with, through a second handle, of a map holding a different
\* entry for a hash already present has run, and the old entry is still there
C1_Witness ==
    /\ lastUnion.handle # 1
    /\ \E h \in DOMAIN lastUnion.map :
          /\ h \in DOMAIN db
          /\ db[h] # lastUnion.map[h]
    /\ \E h \in DOMAIN lastUnion.map : db[h] = lastUnion.map[h]

(***************************************************************************)
(* Database::validate0: the validation sweep.                              *)
(***************************************************************************)
\* a sort key whose first component is !e.is_external()
SortKeyNegated(h, e) == <<IF is_external(e) THEN 0 ELSE 1, blob_path(e), h>>

\* the sort key of validate0: (e.is_external(), e.blob_path(), *k)
SortKey(h, e) == <<IF is_external(e) THEN 1 ELSE 0, blob_path(e), h>>

\* Ord of two sort keys: bool, then Option<PathBuf>, then Hash
KeyLess(a, b) ==
    IF a[1] # b[1] THEN a[1] < b[1]
    ELSE IF a[2] # b[2] THEN a[2] < b[2]
    ELSE HashLess(a[3], b[3])

RECURSIVE InsertByKey(_, _)
\* x put into the sorted sequence s after every element whose key is not greater
InsertByKey(s, x) ==
    IF s = <<>> THEN <<x>>
    ELSE IF KeyLess(SortKey(x.hash, x.entry), SortKey(Head(s).hash, Head(s).entry))
         THEN <<x>> \o s
    ELSE <<Head(s)>> \o InsertByKey(Tail(s), x)

RECURSIVE SortByKey(_)
\* data.sort_by_key(..): a stable sort of the sequence s by SortKey
SortByKey(s) ==
    IF s = <<>> THEN <<>>
    ELSE InsertByKey(SortByKey(SubSeq(s, 1, Len(s) - 1)), s[Len(s)])

\* a copy that misses entries of the index
validate0_data_partial(inner, order) ==
    SortByKey([k \in 1..(Len(order) - 1) |-> [hash |-> order[k], entry |-> inner[order[k]]]])

\* let mut data = self.0.read().unwrap().clone().into_iter().collect(); data.sort_by_key(..)
\* with the HashMap iterating its keys in the order `order`
validate0_data(inner, order) ==
    SortByKey([k \in 1..Len(order) |-> [hash |-> order[k], entry |-> inner[order[k]]]])

\* validate_bao(hash, data, outboard, progress): Ok when the bytes verify
\* against the outboard and the root hash, the mismatch otherwise
validate_bao(h, bytes, ob) ==
    IF ob = OutboardOf(bytes) /\ h = HashOf(bytes) THEN None ELSE "mismatch"

\* the blocking task with a failed File::open taken for a success
work_result_open_ok(h, e, files) ==
    IF is_external(e)
    THEN IF files[e.path] = Missing THEN None
         ELSE validate_bao(h, files[e.path], e.outboard)
    ELSE validate_bao(h, e.data, e.outboard)

\* the body of the blocking task: File::open(&path) then validate_bao for an
\* external entry, validate_bao over the buffer for an internal one; res.err()
work_result(h, e, files) ==
    IF is_external(e)
    THEN IF files[e.path] = Missing THEN "open"
         ELSE validate_bao(h, files[e.path], e.outboard)
    ELSE validate_bao(h, e.data, e.outboard)

Ids == 1..Len(data)

\* the futures buffer_unordered holds: pulled from the stream, not yet finished
InFlight == {i \in Ids : pc[i] \in {"entry", "work", "verifying", "workdone", "crashed"}}

\* the messages queued in the channel
Queued == Len(sent) - nrecv

\* tx.send(..).await can complete: the receiver is open and a permit is free
CanSend == rx = "open" /\ Queued < capacity

StartingMsg(n) == [kind |-> "Starting", id |-> 0, total |-> n]

EntryMsg(i) ==
    [kind |-> "Entry", id |-> i - 1, hash |-> data[i].hash,
     path |-> blob_path(data[i].entry), size |-> entry_size(data[i].entry)]

ProgressMsg(i, o) == [kind |-> "Progress", id |-> i - 1, offset |-> o]

DoneMsg(i, e) == [kind |-> "Done", id |-> i - 1, error |-> e]

\* the copy taken with the read guard kept for the rest of validate0
Validate0CopyLockHeld ==
    /\ result = "idle"
    /\ \E order \in Perms(DOMAIN db) : data' = validate0_data(db, order)
    /\ copied' = db
    /\ pc' = [i \in 1..Len(data') |-> "pending"]
    /\ off' = [i \in 1..Len(data') |-> 0]
    /\ werr' = [i \in 1..Len(data') |-> None]
    /\ result' = "starting"
    /\ lock' = lock \cup {"validate"}
    /\ UNCHANGED <<poolVars, diskVars, db, handles, lastUnion, memVars, fs, tampers, sent, nrecv, rx>>

\* the copy of the index and its sort.  self.0.read().unwrap() is a temporary
\* of the statement that clones the map: the read guard is dropped when the
\* statement ends, before the sort and before the first send.
Validate0Copy ==
    /\ result = "idle"
    /\ \E order \in Perms(DOMAIN db) : data' = validate0_data(db, order)
    /\ copied' = db
    /\ pc' = [i \in 1..Len(data') |-> "pending"]
    /\ off' = [i \in 1..Len(data') |-> 0]
    /\ werr' = [i \in 1..Len(data') |-> None]
    /\ result' = "starting"
    /\ lock' = (lock \cup {"validate"}) \ {"validate"}
    /\ UNCHANGED <<poolVars, diskVars, db, handles, lastUnion, memVars, fs, tampers, sent, nrecv, rx>>

\* tx.send(Starting { total: data.len() }).await?
SendStarting ==
    /\ result = "starting"
    /\ \/ /\ CanSend
          /\ sent' = Append(sent, StartingMsg(Len(data)))
          /\ result' = "running"
       \/ /\ rx = "closed"
          /\ result' = "err"
          /\ UNCHANGED sent
    /\ UNCHANGED <<poolVars, diskVars, storeVars, fs, tampers, data, copied, pc, off, werr, nrecv, rx>>

\* buffer_unordered with no limit on the futures in flight
PullUnbounded(i) ==
    /\ result = "running"
    /\ i \in Ids
    /\ pc[i] = "pending"
    /\ \A j \in 1..(i - 1) : pc[j] # "pending"
    /\ pc' = [pc EXCEPT ![i] = "entry"]
    /\ UNCHANGED <<poolVars, diskVars, storeVars, fs, tampers, result, data, copied, off, werr, sent, nrecv, rx>>

\* buffer_unordered that never takes a new future once num_cpus were taken
PullNoRefill(i) ==
    /\ result = "running"
    /\ i \in Ids
    /\ pc[i] = "pending"
    /\ \A j \in 1..(i - 1) : pc[j] # "pending"
    /\ Cardinality({j \in Ids : pc[j] # "pending"}) < num_cpus
    /\ pc' = [pc EXCEPT ![i] = "entry"]
    /\ UNCHANGED <<poolVars, diskVars, storeVars, fs, tampers, result, data, copied, off, werr,
                   sent, nrecv, rx>>

\* buffer_unordered(num_cpus::get()) takes the next future from the stream
\* while fewer than num_cpus are in flight
Pull(i) ==
    /\ result = "running"
    /\ i \in Ids
    /\ pc[i] = "pending"
    /\ \A j \in 1..(i - 1) : pc[j] # "pending"
    /\ Cardinality(InFlight) < num_cpus
    /\ pc' = [pc EXCEPT ![i] = "entry"]
    /\ UNCHANGED <<poolVars, diskVars, storeVars, fs, tampers, result, data, copied, off, werr, sent, nrecv, rx>>

\* entry_tx.send(Entry { id, hash, path, size }).await?  A failed send makes
\* the future yield Err, on which item.expect("task panicked") panics.
SendEntry(i) ==
    /\ result = "running"
    /\ i \in Ids
    /\ pc[i] = "entry"
    /\ \/ /\ CanSend
          /\ sent' = Append(sent, EntryMsg(i))
          /\ pc' = [pc EXCEPT ![i] = "work"]
          /\ UNCHANGED result
       \/ /\ rx = "closed"
          /\ result' = "panic"
          /\ UNCHANGED <<sent, pc>>
    /\ UNCHANGED <<poolVars, diskVars, storeVars, fs, tampers, data, copied, off, werr, nrecv, rx>>

\* the blocking task starts: it opens the file (external) and verifies.  It
\* runs on the blocking pool whether or not validate0 is still being polled.
WorkOpen(i) ==
    /\ i \in Ids
    /\ pc[i] = "work"
    /\ LET r == work_result(data[i].hash, data[i].entry, fs)
       IN /\ werr' = [werr EXCEPT ![i] = r]
          /\ pc' = [pc EXCEPT ![i] = IF r = "open" THEN "workdone" ELSE "verifying"]
    /\ UNCHANGED <<poolVars, diskVars, storeVars, fs, tampers, result, data, copied, off, sent, nrecv, rx>>

\* a blocking task spawned before the Entry message is sent
ProgressEarly(i) ==
    /\ i \in Ids
    /\ pc[i] \in {"entry", "verifying"}
    /\ off[i] < MaxOffset
    /\ off' = [off EXCEPT ![i] = off[i] + 1]
    /\ sent' = IF CanSend THEN Append(sent, ProgressMsg(i, off[i] + 1)) ELSE sent
    /\ UNCHANGED <<poolVars, diskVars, storeVars, fs, tampers, result, data, copied, pc, werr, nrecv, rx>>

\* a progress callback that waits for room in the channel (send, not try_send)
ProgressBlocking(i) ==
    /\ i \in Ids
    /\ pc[i] = "verifying"
    /\ off[i] < MaxOffset
    /\ CanSend
    /\ off' = [off EXCEPT ![i] = off[i] + 1]
    /\ sent' = Append(sent, ProgressMsg(i, off[i] + 1))
    /\ UNCHANGED <<poolVars, diskVars, storeVars, fs, tampers, result, data, copied, pc, werr, nrecv, rx>>

\* the progress callback: progress_tx.try_send(Progress { id, offset }).ok()
Progress(i) ==
    /\ i \in Ids
    /\ pc[i] = "verifying"
    /\ off[i] < MaxOffset
    /\ off' = [off EXCEPT ![i] = off[i] + 1]
    /\ sent' = IF CanSend THEN Append(sent, ProgressMsg(i, off[i] + 1)) ELSE sent
    /\ UNCHANGED <<poolVars, diskVars, storeVars, fs, tampers, result, data, copied, pc, werr, nrecv, rx>>

\* the blocking task returns res.err()
WorkEnd(i) ==
    /\ i \in Ids
    /\ pc[i] = "verifying"
    /\ pc' = [pc EXCEPT ![i] = "workdone"]
    /\ UNCHANGED <<poolVars, diskVars, storeVars, fs, tampers, result, data, copied, off, werr, sent, nrecv, rx>>

\* validate_bao panics: the blocking task ends without a result, and its
\* JoinHandle will yield a JoinError
Crash(i) ==
    /\ i \in Ids
    /\ pc[i] = "verifying"
    /\ pc' = [pc EXCEPT ![i] = "crashed"]
    /\ werr' = [werr EXCEPT ![i] = "panicked"]
    /\ UNCHANGED <<poolVars, diskVars, storeVars, fs, tampers, result, data, copied, off, sent, nrecv, rx>>


\* a verification error returned with ? instead of being put into Done
SendDoneAbortOnError(i) ==
    /\ result = "running"
    /\ i \in Ids
    /\ pc[i] = "workdone"
    /\ \/ /\ werr[i] = None
          /\ CanSend
          /\ sent' = Append(sent, DoneMsg(i, werr[i]))
          /\ pc' = [pc EXCEPT ![i] = "complete"]
          /\ UNCHANGED result
       \/ /\ werr[i] # None \/ rx = "closed"
          /\ result' = "panic"
          /\ UNCHANGED <<sent, pc>>
    /\ UNCHANGED <<poolVars, diskVars, storeVars, fs, tampers, data, copied, off, werr, nrecv, rx>>

\* the join of the blocking task, then done_tx.send(Done { id, error }).await?
\* A failed send makes the future yield Err, on which item.expect panics.
SendDone(i) ==
    /\ result = "running"
    /\ i \in Ids
    /\ pc[i] = "workdone"
    /\ \/ /\ CanSend
          /\ sent' = Append(sent, DoneMsg(i, werr[i]))
          /\ pc' = [pc EXCEPT ![i] = "complete"]
          /\ UNCHANGED result
       \/ /\ rx = "closed"
          /\ result' = "panic"
          /\ UNCHANGED <<sent, pc>>
    /\ UNCHANGED <<poolVars, diskVars, storeVars, fs, tampers, data, copied, off, werr, nrecv, rx>>

\* a JoinError that is dropped: the entry is reported as verified
JoinCrashSwallowed(i) ==
    /\ result = "running"
    /\ i \in Ids
    /\ pc[i] = "crashed"
    /\ CanSend
    /\ sent' = Append(sent, DoneMsg(i, None))
    /\ pc' = [pc EXCEPT ![i] = "complete"]
    /\ UNCHANGED <<poolVars, diskVars, storeVars, fs, tampers, result, data, copied, off, werr, nrecv, rx>>

\* spawn_blocking(..).await? on a task that panicked: the JoinError makes the
\* future yield Err, and item.expect("task panicked") moves the panic to
\* the task that polls validate0
JoinCrash(i) ==
    /\ result = "running"
    /\ i \in Ids
    /\ pc[i] = "crashed"
    /\ result' = "panic"
    /\ UNCHANGED <<poolVars, diskVars, storeVars, fs, tampers, data, copied, pc, off, werr, sent, nrecv, rx>>

\* the sweep ends when the stream is exhausted, futures still in flight
FinishEarly ==
    /\ result = "running"
    /\ \A i \in Ids : pc[i] # "pending"
    /\ result' = "ok"
    /\ UNCHANGED <<poolVars, diskVars, storeVars, fs, tampers, data, copied, pc, off, werr, sent, nrecv, rx>>

\* the stream is exhausted and no future is in flight: forward(drain()) ends, Ok(())
Finish ==
    /\ result = "running"
    /\ \A i \in Ids : pc[i] = "complete"
    /\ result' = "ok"
    /\ UNCHANGED <<poolVars, diskVars, storeVars, fs, tampers, data, copied, pc, off, werr, sent, nrecv, rx>>

\* the caller takes the next message off the channel
Recv ==
    /\ rx = "open"
    /\ nrecv < Len(sent)
    /\ nrecv' = nrecv + 1
    /\ UNCHANGED <<poolVars, diskVars, storeVars, fs, tampers, result, data, copied, pc, off, werr, sent, rx>>

\* the caller closes or drops the receiving end
RxClose ==
    /\ rx = "open"
    /\ result \in {"idle", "starting", "running"}
    /\ rx' = "closed"
    /\ UNCHANGED <<poolVars, diskVars, storeVars, fs, tampers, result, data, copied, pc, off, werr, sent, nrecv>>

\* what a file is changed to: removed, or overwritten with other bytes
TamperValues(v) == {Missing, (v % MaxContent) + 1} \ {v}

\* the environment removes or overwrites the file of an external entry,
\* after the store was built and before it is validated
Tamper(p) ==
    /\ tampers < MaxTamper
    /\ result = "idle"
    /\ \E v \in TamperValues(fs[p]) : fs' = [fs EXCEPT ![p] = v]
    /\ tampers' = tampers + 1
    /\ UNCHANGED <<poolVars, diskVars, storeVars, result, data, copied, pc, off, werr, sent, nrecv, rx>>

\* the index a sweep starts from: content 1 in a file at path 1, the
\* other contents but the last in memory
SweepStartDb ==
    [h \in {HashOf(c) : c \in 1..(MaxContent - 1)} |->
        IF h = HashOf(1) THEN GoodExternal(1, 1) ELSE GoodInternal(ContentOfHash(h))]

\* the maps merged into the index before or while a sweep runs
SweepInputs ==
    {[h \in {HashOf(MaxContent)} |-> e] : e \in {GoodExternal(MaxContent, MaxPath)}}

SweepInit ==
    /\ db = SweepStartDb
    /\ handles = {1}
    /\ lastUnion = [handle |-> 1, map |-> EmptyMap]
    /\ lock = {}
    /\ SweepIdle
    /\ DiskIdle
    /\ MemIdle

SweepNext ==
    \/ Validate0Copy
    \/ SendStarting
    \/ \E i \in 1..MaxContent : Pull(i)
    \/ \E i \in 1..MaxContent : SendEntry(i)
    \/ \E i \in 1..MaxContent : WorkOpen(i)
    \/ \E i \in 1..MaxContent : Progress(i)
    \/ \E i \in 1..MaxContent : WorkEnd(i)
    \/ \E i \in 1..MaxContent : Crash(i)
    \/ \E i \in 1..MaxContent : SendDone(i)
    \/ \E i \in 1..MaxContent : JoinCrash(i)
    \/ Finish
    \/ Recv
    \/ RxClose
    \/ \E p \in Paths : Tamper(p)
    \/ \E m \in SweepInputs : UnionWith(1, m)

Spec == SweepInit /\ [][SweepNext]_vars


(***************************************************************************)
(* Properties of the validation sweep.                                     *)
(***************************************************************************)
\* positions in the channel's history of the messages of one kind for one id
Positions(kind, id) == {k \in 1..Len(sent) : sent[k].kind = kind /\ sent[k].id = id}

\* the ids announced (Entry sent) and not yet completed (Done sent)
Announced == {i \in Ids : Positions("Entry", i - 1) # {} /\ Positions("Done", i - 1) = {}}

\* the entries whose work unit panicked
Crashed == {i \in Ids : werr[i] = "panicked"}

\* an entry whose bytes do not verify: the file is gone, or the bytes are
\* not those the key hash and the stored outboard were computed from
EntryFails(h, e, files) ==
    LET bytes == IF is_external(e) THEN files[e.path] ELSE e.data
    IN bytes = Missing \/ HashOf(bytes) # h \/ OutboardOf(bytes) # e.outboard

\* C3: in the order the channel delivers them (the order it accepted them),
\* Starting is the first message and the only Starting; for each id every
\* Progress and the Done come after the Entry, and no Progress comes after
\* the Done.
C3_MessageOrder ==
    \A k \in 1..Len(sent) :
        /\ (sent[k].kind = "Starting") <=> (k = 1)
        /\ sent[k].kind = "Progress" =>
              \E j \in 1..(k - 1) : sent[j].kind = "Entry" /\ sent[j].id = sent[k].id
        /\ sent[k].kind = "Done" =>
              /\ \E j \in 1..(k - 1) : sent[j].kind = "Entry" /\ sent[j].id = sent[k].id
              /\ \A j \in (k + 1)..Len(sent) :
                    ~(sent[j].kind = "Progress" /\ sent[j].id = sent[k].id)

\* a finished sweep, all delivered, in which the messages of two entries
\* interleave: entry 1 was announced, made progress and completed before
\* entry 0 completed
C3_Witness ==
    /\ result = "ok"
    /\ nrecv = Len(sent)
    /\ \E p \in Positions("Progress", 1) : \E d \in Positions("Done", 1) :
          \E d0 \in Positions("Done", 0) : \E e0 \in Positions("Entry", 0) :
              e0 < p /\ p < d /\ d < d0

\* the rank of an entry's position in Pending -> Announced -> Verifying -> Done
Rank(s) ==
    CASE s = "pending" -> 0
      [] s = "entry" -> 0
      [] s = "work" -> 1
      [] s = "verifying" -> 2
      [] s = "workdone" -> 2
      [] s = "crashed" -> 2
      [] s = "complete" -> 3

\* the messages sent for each entry are those of the stage it stands at
StagesMatchMessages ==
    /\ \A i \in Ids :
          /\ Rank(pc[i]) = 0 =>
                Positions("Entry", i - 1) = {} /\ Positions("Done", i - 1) = {}
          /\ Rank(pc[i]) \in {1, 2} =>
                /\ Cardinality(Positions("Entry", i - 1)) = 1
                /\ Positions("Done", i - 1) = {}
          /\ Rank(pc[i]) = 3 =>
                /\ Cardinality(Positions("Entry", i - 1)) = 1
                /\ Cardinality(Positions("Done", i - 1)) = 1
    /\ \A k \in 1..Len(sent) :
          (sent[k].kind # "Starting" => sent[k].id \in 0..(Len(data) - 1))
    /\ (result = "ok" => \A i \in Ids : pc[i] = "complete")

\* an entry only moves forward, one stage at a time
StagesAdvance ==
    \A i \in Ids :
        data' = data =>
            /\ Rank(pc'[i]) >= Rank(pc[i])
            /\ Rank(pc'[i]) <= Rank(pc[i]) + 1

\* C4: an entry that is pending has no Entry and no Done message; an
\* announced or verifying entry has exactly one Entry and no Done; a
\* completed entry has exactly one Entry and exactly one Done; messages
\* carry the ids 0..total-1 only; a sweep that returns Ok has completed
\* every entry; and an entry only ever moves forward, one stage at a time.
C4_EntryLifecycle == []StagesMatchMessages /\ [][StagesAdvance]_vars

\* a sweep over three entries returned Ok: each went through every stage
C4_Witness ==
    /\ result = "ok"
    /\ Len(data) = MaxContent
    /\ \A i \in Ids : off[i] > 0

\* C5: validate0 ends in an error or a panic only when the receiver was
\* closed or a work unit crashed, never because an entry failed to verify;
\* the error of a Done is the verification result of that very entry; a
\* sweep that returns Ok has sent a Done for every entry; and a running sweep
\* in which an entry failed can always take a further step while the
\* receiver stays open.
C5_FailureDoesNotStop ==
    /\ result \in {"err", "panic"} => (rx = "closed" \/ Crashed # {})
    /\ \A k \in 1..Len(sent) :
          sent[k].kind = "Done" => sent[k].error = werr[sent[k].id + 1]
    /\ result = "ok" => \A i \in Ids : Positions("Done", i - 1) # {}
    /\ (/\ result = "running"
        /\ rx = "open"
        /\ \E i \in Ids : pc[i] \in {"workdone", "complete"} /\ werr[i] # None)
          => ENABLED (\/ Recv
                      \/ Finish
                      \/ \E i \in Ids : \/ Pull(i)
                                        \/ SendEntry(i)
                                        \/ WorkOpen(i)
                                        \/ WorkEnd(i)
                                        \/ SendDone(i)
                                        \/ JoinCrash(i))

\* validate0 returned Ok although an entry failed to verify, and another
\* entry was announced and completed, without error, after that failure was
\* reported
C5_Witness ==
    /\ result = "ok"
    /\ \E k \in 1..Len(sent) :
          /\ sent[k].kind = "Done"
          /\ sent[k].error # None
          /\ \E j \in Ids :
                \E e \in Positions("Entry", j - 1) : \E d \in Positions("Done", j - 1) :
                    /\ k < e
                    /\ e < d
                    /\ sent[d].error = None

\* C6: the error of Done{id} is present exactly when the entry with that id
\* fails verification (its file is missing, or its bytes are not those of
\* its hash and outboard); with no file tampered no Done carries an error.
C6_CorruptionDetected ==
    /\ \A k \in 1..Len(sent) :
          sent[k].kind = "Done" =>
              ((sent[k].error # None)
                  <=> EntryFails(data[sent[k].id + 1].hash, data[sent[k].id + 1].entry, fs))
    /\ tampers = 0 =>
          \A k \in 1..Len(sent) : (sent[k].kind = "Done" => sent[k].error = None)

\* a file was removed after construction: the sweep over three entries
\* reports an error for exactly that entry
C6_Witness ==
    /\ result = "ok"
    /\ Len(data) = MaxContent
    /\ \E i \in Ids :
          /\ is_external(data[i].entry)
          /\ fs[data[i].entry.path] = Missing
          /\ \A k \in 1..Len(sent) :
                sent[k].kind = "Done" => ((sent[k].error # None) <=> (sent[k].id = i - 1))

\* C7: Starting.total is the number of entries the index held when it was
\* copied; every Entry message announces a hash of that copy, no hash
\* twice; a sweep that returns Ok has announced exactly the hashes of the
\* copy, whatever union_with added to the index in the meantime.
C7_SweepCoversTheCopy ==
    /\ result # "idle" => Len(data) = Cardinality(DOMAIN copied)
    /\ \A k \in 1..Len(sent) :
          /\ sent[k].kind = "Starting" => sent[k].total = Cardinality(DOMAIN copied)
          /\ sent[k].kind = "Entry" =>
                /\ sent[k].hash \in DOMAIN copied
                /\ \A j \in 1..Len(sent) :
                      (j # k /\ sent[j].kind = "Entry") => sent[j].hash # sent[k].hash
    /\ result = "ok" =>
          {sent[k].hash : k \in {j \in 1..Len(sent) : sent[j].kind = "Entry"}} = DOMAIN copied

\* union_with added an entry after the copy was taken, and the sweep
\* returned Ok having announced only the entries of the copy
C7_Witness ==
    /\ result = "ok"
    /\ copied = SweepStartDb
    /\ DOMAIN db # DOMAIN copied
    /\ Cardinality({k \in 1..Len(sent) : sent[k].kind = "Entry"}) = MaxContent - 1

\* C8: at most num_cpus entries are announced and not yet completed.
C8_BoundedConcurrency == Cardinality(Announced) <= Workers

\* num_cpus entries are announced and not completed while another is pending
C8_Witness ==
    /\ result = "running"
    /\ Cardinality(Announced) = Workers
    /\ \E i \in Ids : pc[i] = "pending"

\* C9: once the receiving end is closed, validate stops with an error
\* returned to its caller; it does not panic.
C9_CancelReturnsError == (rx = "closed" /\ Crashed = {}) => result # "panic"

\* C10: once a work unit has crashed the sweep never returns Ok and never
\* sends a Done for that entry; when validate0 has ended, it ended with the
\* panic moved to its caller.
C10_CrashIsFatal ==
    \A i \in Crashed :
        /\ result # "ok"
        /\ Positions("Done", i - 1) = {}
        /\ (result # "running" => result = "panic")

\* a work unit crashed while the receiver was open and validate0 ended in a panic
C10_Witness ==
    /\ rx = "open"
    /\ result = "panic"
    /\ Crashed # {}


\* the indexes whose order of validation is examined: every content is
\* held, in memory or in a file at the first or the last path
OrderEntries ==
    [c \in Contents |-> {GoodInternal(c), GoodExternal(c, 1), GoodExternal(c, MaxPath)}]

OrderDbs == {m \in MapsOver(Contents, OrderEntries) : DOMAIN m = Hashes}

OrderInit ==
    /\ db \in OrderDbs
    /\ handles = {1}
    /\ lastUnion = [handle |-> 1, map |-> EmptyMap]
    /\ lock = {}
    /\ SweepIdle
    /\ DiskIdle
    /\ MemIdle

\* a sweep that runs to its end over an index nothing else touches
OrderNext ==
    \/ Validate0Copy
    \/ SendStarting
    \/ \E i \in 1..MaxContent : Pull(i)
    \/ \E i \in 1..MaxContent : SendEntry(i)
    \/ \E i \in 1..MaxContent : WorkOpen(i)
    \/ \E i \in 1..MaxContent : WorkEnd(i)
    \/ \E i \in 1..MaxContent : SendDone(i)
    \/ Finish
    \/ Recv
    \/ RxClose

SpecOrder == OrderInit /\ [][OrderNext]_vars

\* the path an Entry message carries for the hash h of the copy
CopiedPath(h) == blob_path(copied[h])

\* g comes before h when External entries come first, by path then hash, and
\* Internal entries follow, by hash
ExternalFirstBefore(g, h) ==
    IF is_external(copied[g]) # is_external(copied[h]) THEN is_external(copied[g])
    ELSE IF CopiedPath(g) # CopiedPath(h) THEN CopiedPath(g) < CopiedPath(h)
    ELSE HashLess(g, h)

\* g comes before h when Internal entries come first, by hash, and External
\* entries follow, by path then hash
InternalFirstBefore(g, h) ==
    IF is_external(copied[g]) # is_external(copied[h]) THEN is_external(copied[h])
    ELSE IF CopiedPath(g) # CopiedPath(h) THEN CopiedPath(g) < CopiedPath(h)
    ELSE HashLess(g, h)

\* C11 as stated: the id of every Entry message is the number of entries of
\* the copy that come before its hash in the order External entries first
\* (by path, then hash), Internal entries after them (by hash).
C11_ExternalFirstIds ==
    \A k \in 1..Len(sent) :
        sent[k].kind = "Entry" =>
            sent[k].id = Cardinality({g \in DOMAIN copied : ExternalFirstBefore(g, sent[k].hash)})

\* C11, amended: the id of every Entry message is the number of entries of
\* the copy that come before its hash in the order Internal entries first
\* (by hash), External entries after them (by path, then hash), whatever
\* order the index iterates in; a sweep that returns Ok has used exactly
\* the ids 0..total-1, each once.
C11_InternalFirstIds ==
    /\ \A k \in 1..Len(sent) :
          sent[k].kind = "Entry" =>
              /\ sent[k].id =
                    Cardinality({g \in DOMAIN copied : InternalFirstBefore(g, sent[k].hash)})
              /\ sent[k].path = CopiedPath(sent[k].hash)
              /\ \A j \in 1..Len(sent) :
                    (j # k /\ sent[j].kind = "Entry") => sent[j].id # sent[k].id
    /\ result = "ok" =>
          {sent[k].id : k \in {j \in 1..Len(sent) : sent[j].kind = "Entry"}}
              = 0..(Cardinality(DOMAIN copied) - 1)

\* a sweep over Internal and External entries returned Ok: an Internal entry
\* has id 0 and two External entries, in path order against their hash
\* order, have the ids after it
C11_Witness ==
    /\ result = "ok"
    /\ Len(data) = MaxContent
    /\ ~is_external(data[1].entry)
    /\ \E i \in Ids : \E j \in Ids :
          /\ i < j
          /\ is_external(data[i].entry)
          /\ is_external(data[j].entry)
          /\ data[i].entry.path < data[j].entry.path
          /\ HashLess(data[j].hash, data[i].hash)
    /\ \A i \in Ids : Positions("Entry", i - 1) # {}

\* C19: the channel never holds more than its capacity; a verification
\* under way can always make its next progress callback and can always end,
\* however full the channel is; its result is that of the entry's bytes,
\* whatever became of its Progress messages, of which there are at most as
\* many as callbacks; Starting, Entry and Done are in the channel's history
\* once the sweep is past them; and with the receiver open and the channel
\* full, the sends of Starting, Entry and Done wait.
C19_ProgressNeverBlocks ==
    /\ Queued <= Capacity
    /\ \A i \in Ids :
          /\ pc[i] = "verifying" =>
                /\ off[i] < MaxOffset => ENABLED Progress(i)
                /\ ENABLED WorkEnd(i)
          /\ (pc[i] \in {"verifying", "workdone", "complete"}) =>
                werr[i] = work_result(data[i].hash, data[i].entry, fs)
          /\ Cardinality(Positions("Progress", i - 1)) <= off[i]
          /\ pc[i] \in {"work", "verifying", "workdone", "crashed", "complete"} =>
                Positions("Entry", i - 1) # {}
          /\ pc[i] = "complete" => Positions("Done", i - 1) # {}
    /\ result \in {"running", "ok"} => (sent # <<>> /\ sent[1].kind = "Starting")
    /\ (rx = "open" /\ Queued = Capacity) =>
          /\ ~ENABLED SendStarting
          /\ \A i \in Ids : ~ENABLED SendEntry(i) /\ ~ENABLED SendDone(i)

\* a sweep returned Ok with the receiver open throughout: the callback of
\* one entry found the channel full and its Progress message was dropped,
\* that of another entry was delivered, and both entries have their Done
C19_Witness ==
    /\ result = "ok"
    /\ rx = "open"
    /\ \E i \in Ids :
          /\ off[i] > 0
          /\ Positions("Progress", i - 1) = {}
          /\ Positions("Done", i - 1) # {}
    /\ \E i \in Ids : Positions("Progress", i - 1) # {}

(***************************************************************************)
(* Snapshot persistence: format_hash / parse_hash, Database::snapshot,     *)
(* Snapshot::persist, Snapshot::load, Database::from_snapshot.             *)
(***************************************************************************)
HexDigits == <<"0", "1", "2", "3", "4", "5", "6", "7", "8", "9", "a", "b", "c", "d", "e", "f">>

UpperDigits == <<"0", "1", "2", "3", "4", "5", "6", "7", "8", "9", "A", "B", "C", "D", "E", "F">>

\* hex::encode: two lowercase digits per byte
HexEncode(bs) ==
    [k \in 1..(2 * Len(bs)) |->
        LET b == bs[(k + 1) \div 2]
        IN HexDigits[(IF k % 2 = 1 THEN b \div 16 ELSE b % 16) + 1]]

\* the file name of each digest value
DigestNames == [h \in 0..11 |-> HexEncode(DigestBytes[h])]

\* format_hash: hex::encode(hash.as_ref())
format_hash(h) == DigestNames[h]

\* the value of every hex digit, of either case
HexValues ==
    [ch \in {HexDigits[v] : v \in 1..16} \cup {UpperDigits[v] : v \in 1..16} |->
        (CHOOSE v \in 1..16 : HexDigits[v] = ch \/ UpperDigits[v] = ch) - 1]

\* the value of a hex digit, -1 for any other character
HexVal(ch) == IF ch \in DOMAIN HexValues THEN HexValues[ch] ELSE -1

\* Hash::from([u8; 32]): the hash with these bytes
HashFromBytes(bs) == CHOOSE h \in 0..11 : DigestBytes[h] = bs

\* parse_hash: hex::decode(name)?, then exactly 32 bytes or "wrong size for hash"
parse_hash(name) ==
    IF Len(name) % 2 # 0 \/ \E k \in 1..Len(name) : HexVal(name[k]) = -1
    THEN [ok |-> FALSE, hash |-> 0]
    ELSE LET bs == [j \in 1..(Len(name) \div 2) |->
                        16 * HexVal(name[2 * j - 1]) + HexVal(name[2 * j])]
         IN IF Len(bs) # HashLen
            THEN [ok |-> FALSE, hash |-> 0]
            ELSE [ok |-> TRUE, hash |-> HashFromBytes(bs)]

\* a file name with its letters in upper case
UpperName(name) == [k \in 1..Len(name) |-> UpperDigits[HexValues[name[k]] + 1]]

\* file names put into collections/ from outside: no hex, an odd number of
\* digits, the hex of one byte, and the name of a hash in either case
StrayNames ==
    {<<"z", "z">>, <<"a", "b", "c">>, <<"a", "b">>}
        \cup {format_hash(HashOf(c)) : c \in 1..(MaxContent - 1)}
        \cup {UpperName(format_hash(HashOf(1)))}

\* parse_hash of the file names that occur, computed once
ParsedNames == [name \in {DigestNames[h] : h \in 0..11} \cup StrayNames |-> parse_hash(name)]

\* parse_hash(name) of a file name of the directory
parse_name(name) ==
    IF name \in DOMAIN ParsedNames THEN ParsedNames[name] ELSE parse_hash(name)

RECURSIVE IterSeq(_)
\* the elements of a set of hashes in the order a HashMap iterates them: any
\* fixed order; here descending, which is not the order persist sorts into
IterSeq(S) ==
    IF S = {} THEN <<>>
    ELSE LET h == CHOOSE x \in S : \A y \in S : y <= x
         IN <<h>> \o IterSeq(S \ {h})

\* one element of a Snapshot's outboard or collection sequence: Ok((hash, bytes))
OkItem(h, b) == [ok |-> TRUE, hash |-> h, bytes |-> b]

\* an element whose read failed: Err(io::Error)
ErrItem == [ok |-> FALSE, hash |-> 0, bytes |-> 0]

\* Database::snapshot without the collection buffers
snapshot_no_collections(inner) ==
    LET keys == IterSeq(DOMAIN inner)
    IN [outboards |-> [k \in 1..Len(keys) |-> OkItem(keys[k], inner[keys[k]].outboard)],
        collections |-> <<>>,
        paths |-> [k \in 1..Len(keys) |->
                      IF is_external(inner[keys[k]])
                      THEN <<keys[k], inner[keys[k]].size, inner[keys[k]].path>>
                      ELSE <<keys[k], SizeOf(inner[keys[k]].data), NoPath>>]]

\* Database::snapshot: the three sequences, built under one read lock
snapshot(inner) ==
    LET keys == IterSeq(DOMAIN inner)
        ints == IterSeq({h \in DOMAIN inner : ~is_external(inner[h])})
    IN [outboards |-> [k \in 1..Len(keys) |-> OkItem(keys[k], inner[keys[k]].outboard)],
        collections |-> [k \in 1..Len(ints) |-> OkItem(ints[k], inner[ints[k]].data)],
        paths |-> [k \in 1..Len(keys) |->
                      IF is_external(inner[keys[k]])
                      THEN <<keys[k], inner[keys[k]].size, inner[keys[k]].path>>
                      ELSE <<keys[k], SizeOf(inner[keys[k]].data), NoPath>>]]

RECURSIVE InsertSorted(_, _)
\* x put into the sorted sequence s after every element that is not greater
InsertSorted(s, x) ==
    IF s = <<>> THEN <<x>>
    ELSE IF HashLess(x[1], Head(s)[1]) THEN <<x>> \o s
    ELSE <<Head(s)>> \o InsertSorted(Tail(s), x)

RECURSIVE SortPaths(_)
\* paths.sort_by_key(|(path, _, _)| *path): a stable sort by the hash
SortPaths(s) ==
    IF s = <<>> THEN <<>>
    ELSE InsertSorted(SortPaths(SubSeq(s, 1, Len(s) - 1)), s[Len(s)])

RECURSIVE Flatten(_)
Flatten(ss) == IF ss = <<>> THEN <<>> ELSE Head(ss) \o Flatten(Tail(ss))

\* postcard::to_stdvec(&paths): the length, then per element the hash, the
\* size, and the option as tag 0 or as tag 1 followed by the path
SerializePaths(ps) ==
    <<Len(ps)>> \o
    Flatten([k \in 1..Len(ps) |->
                IF ps[k][3] = NoPath THEN <<ps[k][1], ps[k][2], 0>>
                ELSE <<ps[k][1], ps[k][2], 1, ps[k][3]>>])

RECURSIVE ParseElems(_, _)
\* n elements read off the front of the tokens t; ok is FALSE when they run out
ParseElems(t, n) ==
    IF n = 0 THEN [ok |-> t = <<>>, paths |-> <<>>]
    ELSE IF Len(t) < 3 THEN [ok |-> FALSE, paths |-> <<>>]
    ELSE IF t[3] = 0
         THEN LET r == ParseElems(SubSeq(t, 4, Len(t)), n - 1)
              IN [ok |-> r.ok, paths |-> <<(<<t[1], t[2], NoPath>>)>> \o r.paths]
    ELSE IF t[3] = 1 /\ Len(t) >= 4
         THEN LET r == ParseElems(SubSeq(t, 5, Len(t)), n - 1)
              IN [ok |-> r.ok, paths |-> <<(<<t[1], t[2], t[4]>>)>> \o r.paths]
    ELSE [ok |-> FALSE, paths |-> <<>>]

\* postcard::from_bytes::<Vec<(Hash, u64, Option<PathBuf>)>>(&paths)
DeserializePaths(t) ==
    IF t = <<>> THEN [ok |-> FALSE, paths |-> <<>>] ELSE ParseElems(Tail(t), Head(t))

\* fs::write(path, bytes): the file is created or replaced
WriteFile(files, name, b) ==
    [n \in DOMAIN files \cup {name} |-> IF n = name THEN File(b) ELSE files[n]]

RECURSIVE WriteItems(_, _)
\* for item in items { let (hash, bytes) = item?; fs::write(dir.join(format_hash(&hash)), &bytes)? }
\* the files after the loop, which ends at the first element that is an Err
WriteItems(files, items) ==
    IF items = <<>> \/ ~Head(items).ok THEN files
    ELSE WriteItems(WriteFile(files, format_hash(Head(items).hash), Head(items).bytes),
                    Tail(items))

AllOk(items) == \A k \in 1..Len(items) : items[k].ok

\* Snapshot::persist: create the directories, write every outboard, every
\* collection, then the sorted paths file; an Err element ends it with an error
persist(d, snap) ==
    LET obs == WriteItems(d.outboards, snap.outboards)
        cols == WriteItems(d.collections, snap.collections)
    IN IF ~AllOk(snap.outboards)
       THEN [ok |-> FALSE, dir |-> [d EXCEPT !.exists = TRUE, !.outboards = obs]]
       ELSE IF ~AllOk(snap.collections)
       THEN [ok |-> FALSE,
             dir |-> [d EXCEPT !.exists = TRUE, !.outboards = obs, !.collections = cols]]
       ELSE [ok |-> TRUE,
             dir |-> [exists |-> TRUE, outboards |-> obs, collections |-> cols,
                      paths |-> [exists |-> TRUE,
                                 bytes |-> SerializePaths(SortPaths(snap.paths))]]]

RECURSIVE WriteSteps(_, _)
\* the files of a directory after each step of persist's loop over items:
\* fs::write creates or truncates the file, then fills it
WriteSteps(files, items) ==
    IF items = <<>> \/ ~Head(items).ok THEN <<>>
    ELSE LET name == format_hash(Head(items).hash)
             done == WriteFile(files, name, Head(items).bytes)
         IN <<WriteFile(files, name, Truncated), done>> \o WriteSteps(done, Tail(items))

\* the directory at each point where persist can be interrupted: after
\* create_dir_all, after every step of the outboard loop, of the collection
\* loop, and with the paths file truncated and not yet written
persist_crash_points(d, snap) ==
    LET d0 == [d EXCEPT !.exists = TRUE]
        os == WriteSteps(d.outboards, snap.outboards)
        obs == WriteItems(d.outboards, snap.outboards)
        cs == WriteSteps(d.collections, snap.collections)
        cols == WriteItems(d.collections, snap.collections)
    IN <<d0>>
       \o [k \in 1..Len(os) |-> [d0 EXCEPT !.outboards = os[k]]]
       \o [k \in 1..Len(cs) |-> [d0 EXCEPT !.outboards = obs, !.collections = cs[k]]]
       \o <<[d0 EXCEPT !.outboards = obs, !.collections = cols,
                       !.paths = [exists |-> TRUE, bytes |-> <<>>]]>>

RECURSIVE AscendingSeq(_)
\* BTreeSet<Hash>::into_iter(): ascending
AscendingSeq(S) ==
    IF S = {} THEN <<>>
    ELSE LET h == CHOOSE x \in S : \A y \in S \ {x} : HashLess(x, y)
         IN <<h>> \o AscendingSeq(S \ {h})

\* the closure without the test hashes.contains(&hash)
CollectionCandidateAnyHash(d, hashes, name) ==
    LET f == d.collections[name]
        ph == parse_name(name)
    IN IF f.is_dir \/ ~ph.ok
       THEN <<>>
       ELSE IF f.bytes = Unreadable THEN <<ErrItem>>
       ELSE <<OkItem(ph.hash, f.bytes)>>

\* the closure load maps over read_dir: None for a directory, a name that
\* is no hash, or a hash the paths file does not list; otherwise the file,
\* or the error of reading it
CollectionCandidate(d, hashes, name) ==
    LET f == d.collections[name]
        ph == parse_name(name)
    IN IF f.is_dir \/ ~ph.ok \/ ph.hash \notin hashes
       THEN <<>>
       ELSE IF f.bytes = Unreadable THEN <<ErrItem>>
       ELSE <<OkItem(ph.hash, f.bytes)>>

\* Snapshot::load with the collections directory listed in the order `order`
load(d, order) ==
    IF ~d.paths.exists THEN [ok |-> FALSE, error |-> "Failed reading paths", snap |-> <<>>]
    ELSE LET parsed == DeserializePaths(d.paths.bytes)
             hashes == {parsed.paths[k][1] : k \in 1..Len(parsed.paths)}
             keys == AscendingSeq(hashes)
         IN IF ~parsed.ok THEN [ok |-> FALSE, error |-> "postcard", snap |-> <<>>]
            ELSE IF ~d.exists
            THEN [ok |-> FALSE, error |-> "Failed reading collections directory", snap |-> <<>>]
            ELSE [ok |-> TRUE, error |-> None,
                  snap |-> [paths |-> parsed.paths,
                            outboards |-> [k \in 1..Len(keys) |->
                                LET name == format_hash(keys[k])
                                IN IF /\ name \in DOMAIN d.outboards
                                      /\ ~d.outboards[name].is_dir
                                      /\ d.outboards[name].bytes # Unreadable
                                   THEN OkItem(keys[k], d.outboards[name].bytes)
                                   ELSE ErrItem],
                            collections |-> Flatten([k \in 1..Len(order) |->
                                CollectionCandidate(d, hashes, order[k])])]]

RECURSIVE CollectMap(_, _)
\* items.collect::<Result<HashMap<_, _>, E>>() continued from the map m: a
\* later element replaces an earlier one of the same hash
CollectMap(m, items) ==
    IF items = <<>> THEN m
    ELSE CollectMap([h \in DOMAIN m \cup {Head(items).hash} |->
                        IF h = Head(items).hash THEN Head(items).bytes ELSE m[h]],
                    Tail(items))

RECURSIVE InsertExternalUnchecked(_, _, _)
\* the first loop of from_snapshot without the test for an outboard: an
\* element with a path gets an entry, with an empty outboard when none is there
InsertExternalUnchecked(m, ps, obs) ==
    IF ps = <<>> THEN m
    ELSE LET h == Head(ps)[1]
         IN IF Head(ps)[3] # NoPath
            THEN InsertExternalUnchecked(
                    [k \in DOMAIN m \cup {h} |->
                        IF k = h
                        THEN External(IF h \in DOMAIN obs THEN obs[h] ELSE 0,
                                      Head(ps)[3], Head(ps)[2])
                        ELSE m[k]],
                    Tail(ps), obs)
            ELSE InsertExternalUnchecked(m, Tail(ps), obs)

RECURSIVE InsertExternal(_, _, _)
\* the first loop of from_snapshot over the paths sequence
InsertExternal(m, ps, obs) ==
    IF ps = <<>> THEN m
    ELSE LET h == Head(ps)[1]
         IN IF Head(ps)[3] # NoPath /\ h \in DOMAIN obs
            THEN InsertExternal(
                    [k \in DOMAIN m \cup {h} |->
                        IF k = h THEN External(obs[h], Head(ps)[3], Head(ps)[2]) ELSE m[k]],
                    Tail(ps), obs)
            ELSE InsertExternal(m, Tail(ps), obs)

\* the second loop of from_snapshot over the collected collections: an
\* Internal entry is inserted over whatever the first loop put there
InsertInternal(m, cols, obs) ==
    [k \in DOMAIN m \cup (DOMAIN cols \cap DOMAIN obs) |->
        IF k \in DOMAIN cols /\ k \in DOMAIN obs THEN Internal(obs[k], cols[k]) ELSE m[k]]

\* from_snapshot that leaves out the elements that failed to read
from_snapshot_skip_errors(snap) ==
    LET oks(items) == Flatten([k \in 1..Len(items) |->
                                  IF items[k].ok THEN <<items[k]>> ELSE <<>>])
        obs == CollectMap(EmptyMap, oks(snap.outboards))
        cols == CollectMap(EmptyMap, oks(snap.collections))
    IN [ok |-> TRUE, error |-> None,
        db |-> InsertInternal(InsertExternal(EmptyMap, snap.paths, obs), cols, obs)]

\* Database::from_snapshot
from_snapshot(snap) ==
    IF ~AllOk(snap.outboards)
    THEN [ok |-> FALSE, error |-> "Failed reading outboards", db |-> EmptyMap]
    ELSE IF ~AllOk(snap.collections)
    THEN [ok |-> FALSE, error |-> "Failed reading collections", db |-> EmptyMap]
    ELSE LET obs == CollectMap(EmptyMap, snap.outboards)
             cols == CollectMap(EmptyMap, snap.collections)
         IN [ok |-> TRUE, error |-> None,
             db |-> InsertInternal(InsertExternal(EmptyMap, snap.paths, obs), cols, obs)]

\* Database::load_internal: Snapshot::load(dir)? then from_snapshot(snapshot)?
load_internal(d, order) ==
    LET s == load(d, order)
    IN IF s.ok THEN from_snapshot(s.snap)
       ELSE [ok |-> FALSE, error |-> s.error, db |-> EmptyMap]

\* the stores that are saved: each content but the last either absent, in
\* memory, or in a file; content 1 also in memory with bytes that are not its own
DiskEntries ==
    [c \in Contents |->
        {GoodInternal(c), GoodExternal(c, MaxPath)} \cup (IF c = 1 THEN {BadInternal(c)} ELSE {})]

DiskDbs == MapsOver(1..(MaxContent - 1), DiskEntries)

\* impl From<HashMap<Hash, DbEntry>> for Database: the store now holds m
FromMap(m) ==
    /\ db' = m
    /\ UNCHANGED <<handles, lastUnion, lock, memVars, sweepVars, diskVars>>

\* Database::save_internal: self.snapshot().persist(dir)
Save ==
    /\ npersist < MaxPersist
    /\ dir' = persist(dir, snapshot(db)).dir
    /\ saved' = db
    /\ npersist' = npersist + 1
    /\ UNCHANGED <<storeVars, sweepVars, pending, building, given, faults, loaded>>

\* Database::save_internal interrupted (the process is killed) at one of the
\* points of persist
SaveCrash ==
    /\ npersist < MaxPersist
    /\ faults.crash + faults.damage < MaxFault
    /\ LET points == persist_crash_points(dir, snapshot(db))
       IN \E k \in 1..Len(points) : dir' = points[k]
    /\ faults' = [faults EXCEPT !.crash = faults.crash + 1]
    /\ UNCHANGED <<storeVars, sweepVars, saved, npersist, pending, building, given, loaded>>

\* Database::load_internal(dir)
Load ==
    /\ \E order \in Perms(DOMAIN dir.collections) :
          LET s == load(dir, order)
              r == load_internal(dir, order)
          IN /\ given' = IF s.ok THEN <<s.snap>> ELSE <<>>
             /\ loaded' = [status |-> IF r.ok THEN "ok" ELSE "err", error |-> r.error,
                           db |-> r.db, of |-> saved,
                           first |-> (npersist = 1 /\ faults.crash + faults.damage = 0),
                           again |-> (npersist > 1 /\ faults.crash + faults.damage = 0),
                           from |-> dir]
    /\ UNCHANGED <<storeVars, sweepVars, dir, saved, npersist, pending, building, faults>>

DiskInit ==
    /\ db = EmptyMap
    /\ handles = {1}
    /\ lastUnion = [handle |-> 1, map |-> EmptyMap]
    /\ lock = {}
    /\ SweepIdle
    /\ DiskIdle
    /\ MemIdle

DiskNext ==
    \/ \E m \in DiskDbs : FromMap(m)
    \/ Save
    \/ SaveCrash
    \/ Load

SpecDisk == DiskInit /\ [][DiskNext]_vars

\* C2: a load of a directory that has received one save, of a store holding
\* the map M, succeeds and yields a Database whose to_inner() is M: the same
\* hashes, each with the same External/Internal entry (outboard bytes, path
\* and size, or outboard bytes and content bytes).
C2_RoundTrip ==
    (loaded.status # "none" /\ loaded.first) =>
        /\ loaded.status = "ok"
        /\ loaded.db = loaded.of

\* a store holding an External and an Internal entry was saved and loaded
C2_Witness ==
    /\ loaded.status = "ok"
    /\ loaded.first
    /\ \E h \in DOMAIN loaded.db : is_external(loaded.db[h])
    /\ \E h \in DOMAIN loaded.db : ~is_external(loaded.db[h])

\* C22: a load of a directory that has received a save of a store A and then a
\* save of a store B, nothing else having written to it, succeeds and yields
\* exactly B: B's hashes, each with B's External or Internal entry; the files
\* the first save left behind add no entry and change none.
C22_StaleFilesAreInert ==
    (loaded.status # "none" /\ loaded.again) =>
        /\ loaded.status = "ok"
        /\ loaded.db = loaded.of

\* the elements of the paths file, when there is one and it deserializes
ListedPaths ==
    IF dir.paths.exists /\ DeserializePaths(dir.paths.bytes).ok
    THEN DeserializePaths(dir.paths.bytes).paths
    ELSE <<>>

\* the file `name` is in the directory listing `files`, completely written
Written(files, name) ==
    /\ name \in DOMAIN files
    /\ ~files[name].is_dir
    /\ files[name].bytes # Truncated

\* C12: whenever persist is interrupted, and nothing but the store writes to
\* the directory, a paths file that is present lists only hashes whose
\* outboard file is completely written and, for an element without a path,
\* whose collection file is completely written.
C12_PathsFileNeverAhead ==
    faults.damage = 0 =>
        \A k \in 1..Len(ListedPaths) :
            /\ Written(dir.outboards, format_hash(ListedPaths[k][1]))
            /\ ListedPaths[k][3] = NoPath =>
                  Written(dir.collections, format_hash(ListedPaths[k][1]))

\* C13: a load of a directory that has no paths file succeeds and yields
\* an empty Database.
C13_MissingPathsIsEmptyStore ==
    (loaded.status # "none" /\ ~loaded.from.paths.exists) =>
        /\ loaded.status = "ok"
        /\ loaded.db = EmptyMap

(***************************************************************************)
(* A data directory that something other than the store also changes.      *)
(***************************************************************************)
\* a file of outboards/ is removed from outside
RemoveOutboard(name) ==
    /\ faults.crash + faults.damage < MaxFault
    /\ name \in DOMAIN dir.outboards
    /\ dir' = [dir EXCEPT !.outboards = [n \in DOMAIN dir.outboards \ {name} |-> dir.outboards[n]]]
    /\ faults' = [faults EXCEPT !.damage = faults.damage + 1]
    /\ UNCHANGED <<storeVars, sweepVars, saved, npersist, pending, building, given, loaded>>

\* a file of outboards/ or collections/ becomes unreadable
Spoil(name) ==
    /\ faults.crash + faults.damage < MaxFault
    /\ \/ /\ name \in DOMAIN dir.outboards
          /\ dir' = [dir EXCEPT !.outboards = WriteFile(dir.outboards, name, Unreadable)]
       \/ /\ name \in DOMAIN dir.collections
          /\ dir' = [dir EXCEPT !.collections = WriteFile(dir.collections, name, Unreadable)]
    /\ faults' = [faults EXCEPT !.damage = faults.damage + 1]
    /\ UNCHANGED <<storeVars, sweepVars, saved, npersist, pending, building, given, loaded>>

\* a file or a subdirectory appears in collections/
AddStray(name, f) ==
    /\ faults.crash + faults.damage < MaxFault
    /\ dir.exists
    /\ name \notin DOMAIN dir.collections
    /\ dir' = [dir EXCEPT !.collections =
                  [n \in DOMAIN dir.collections \cup {name} |->
                      IF n = name THEN f ELSE dir.collections[n]]]
    /\ faults' = [faults EXCEPT !.damage = faults.damage + 1]
    /\ UNCHANGED <<storeVars, sweepVars, saved, npersist, pending, building, given, loaded>>

\* the stores saved into a directory that is then changed from outside:
\* content 1 in a file or in memory, content 2 in memory
DamageDbs ==
    {m \in MapsOver(1..(MaxContent - 1),
                    [c \in Contents |-> IF c = 1 THEN {GoodInternal(c), GoodExternal(c, MaxPath)}
                                        ELSE {GoodInternal(c)}]) :
        HashOf(1) \in DOMAIN m}

DamageNext ==
    \/ \E m \in DamageDbs : FromMap(m)
    \/ Save
    \/ Load
    \/ \E name \in DOMAIN dir.outboards : RemoveOutboard(name)
    \/ \E name \in DOMAIN dir.outboards \cup DOMAIN dir.collections : Spoil(name)
    \/ \E name \in StrayNames : \E f \in {Subdir, File(1)} : AddStray(name, f)

SpecDamage == DiskInit /\ [][DamageNext]_vars

\* the hashes the paths file of the directory d lists
ListedIn(d) ==
    IF d.paths.exists /\ DeserializePaths(d.paths.bytes).ok
    THEN {DeserializePaths(d.paths.bytes).paths[k][1] :
            k \in 1..Len(DeserializePaths(d.paths.bytes).paths)}
    ELSE {}

\* the file `name` of the listing `files` cannot be read as a file
Unread(files, name) ==
    \/ name \notin DOMAIN files
    \/ files[name].is_dir
    \/ files[name].bytes = Unreadable

\* the directory d has a listed hash whose outboard file is missing or
\* unreadable, or an unreadable file in collections/ named after a listed hash
LostFile(d) ==
    \/ \E h \in ListedIn(d) : Unread(d.outboards, format_hash(h))
    \/ \E name \in DOMAIN d.collections :
          /\ ~d.collections[name].is_dir
          /\ parse_name(name).ok
          /\ parse_name(name).hash \in ListedIn(d)
          /\ d.collections[name].bytes = Unreadable

\* C14: a load of a directory whose paths file lists a hash whose outboard
\* file is missing or unreadable, or that holds an unreadable collection
\* file of a listed hash, fails with the error of reading outboards or
\* collections and yields no Database, not a partly filled one.
C14_LoadFailsAsAWhole ==
    (loaded.status # "none" /\ LostFile(loaded.from)) =>
        /\ loaded.status = "err"
        /\ loaded.error \in {"Failed reading outboards", "Failed reading collections"}
        /\ loaded.db = EmptyMap

\* a directory holding two listed hashes lost the outboard file of one of
\* them, and its load failed
C14_Witness ==
    /\ loaded.status = "err"
    /\ loaded.error = "Failed reading outboards"
    /\ Cardinality(ListedIn(loaded.from)) > 1
    /\ \E h \in ListedIn(loaded.from) : format_hash(h) \notin DOMAIN loaded.from.outboards
    /\ \E h \in ListedIn(loaded.from) : ~Unread(loaded.from.outboards, format_hash(h))

(***************************************************************************)
(* InMemDatabase: Arc<HashMap<Hash, (PreOrderMemOutboard, Bytes)>>.        *)
(***************************************************************************)
\* the handles that hold the Arc a: its strong count
Holders(a) == {hd \in 1..MaxHandles : memArc[hd] = a}

\* HashMap::insert(hash, (outboard, data)) of the content c
mem_put(m, c) ==
    [h \in DOMAIN m \cup {HashOf(c)} |->
        IF h = HashOf(c) THEN [outboard |-> OutboardOf(c), data |-> c] ELSE m[h]]

\* a mutable reference taken to the shared map without cloning it
make_mut_in_place(hd) == memArc[hd]

\* Arc::make_mut(&mut self.0): the Arc the handle holds when no other handle
\* holds it, otherwise a new Arc, which receives a clone of the map
make_mut(hd) ==
    IF Holders(memArc[hd]) = {hd} THEN memArc[hd]
    ELSE CHOOSE a \in 1..MaxHandles : Holders(a) = {}

\* InMemDatabase::get: the data of the entry, or None
mem_get(hd, h) ==
    LET m == memMaps[memArc[hd]]
    IN IF h \in DOMAIN m THEN [some |-> TRUE, data |-> m[h].data]
       ELSE [some |-> FALSE, data |-> 0]

\* #[derive(Clone)] on InMemDatabase: the new handle holds the same Arc
MemClone(hd, n) ==
    /\ memArc[hd] # 0
    /\ memArc[n] = 0
    /\ memArc' = [memArc EXCEPT ![n] = memArc[hd]]
    /\ UNCHANGED <<db, handles, lastUnion, lock, memMaps, lastInsert, sweepVars, diskVars>>

\* a handle is dropped, and with the last handle of an Arc its map
MemDrop(hd) ==
    /\ memArc[hd] # 0
    /\ Holders(memArc[hd]) # {hd} \/ \E g \in 1..MaxHandles : g # hd /\ memArc[g] # 0
    /\ memArc' = [memArc EXCEPT ![hd] = 0]
    /\ memMaps' = IF Holders(memArc[hd]) = {hd}
                  THEN [memMaps EXCEPT ![memArc[hd]] = EmptyMap]
                  ELSE memMaps
    /\ lastInsert' = IF lastInsert.handle = hd
                     THEN [handle |-> 0, data |-> 0, hash |-> 0]
                     ELSE lastInsert
    /\ UNCHANGED <<db, handles, lastUnion, lock, sweepVars, diskVars>>

\* InMemDatabase::insert(data) through the handle hd
MemInsert(hd, c) ==
    /\ memArc[hd] # 0
    /\ LET a == make_mut(hd)
       IN /\ memArc' = [memArc EXCEPT ![hd] = a]
          /\ memMaps' = [memMaps EXCEPT ![a] = mem_put(memMaps[memArc[hd]], c)]
    /\ lastInsert' = [handle |-> hd, data |-> c, hash |-> HashOf(c)]
    /\ UNCHANGED <<db, handles, lastUnion, lock, sweepVars, diskVars>>

MemInit ==
    /\ db = EmptyMap
    /\ handles = {1}
    /\ lastUnion = [handle |-> 1, map |-> EmptyMap]
    /\ lock = {}
    /\ MemIdle
    /\ SweepIdle
    /\ DiskIdle

MemNext ==
    \/ \E hd \in 1..MaxHandles : \E n \in 1..MaxHandles : MemClone(hd, n)
    \/ \E hd \in 1..MaxHandles : MemDrop(hd)
    \/ \E hd \in 1..MaxHandles : \E c \in Contents : MemInsert(hd, c)

SpecMem == MemInit /\ [][MemNext]_vars

\* what get returns through the handle hd, for every hash
MemView(hd) == [h \in Hashes |-> mem_get(hd, h)]

\* C15: across every step, a handle that stays live and is not the one an
\* insert goes through returns from get, for every hash, what it returned
\* before; the inserting handle returns the inserted content under the hash
\* insert returned, and what it returned before under every other hash.
C15_CopyOnWrite ==
    [][\A hd \in 1..MaxHandles :
          (memArc[hd] # 0 /\ memArc'[hd] # 0) =>
              IF lastInsert' # lastInsert /\ lastInsert'.handle = hd
              THEN /\ lastInsert'.hash \in Hashes
                   /\ MemView(hd)'[lastInsert'.hash] =
                          [some |-> TRUE, data |-> lastInsert'.data]
                   /\ \A h \in Hashes \ {lastInsert'.hash} :
                          MemView(hd)'[h] = MemView(hd)[h]
              ELSE MemView(hd)' = MemView(hd)]_vars

\* two handles that shared a map of one entry: the insert through one of
\* them left the other with that one entry
C15_Witness ==
    /\ lastInsert.handle # 0
    /\ \E g \in 1..MaxHandles :
          /\ g # lastInsert.handle
          /\ memArc[g] # 0
          /\ DOMAIN memMaps[memArc[g]] # {}
          /\ ~mem_get(g, lastInsert.hash).some
          /\ \A h \in DOMAIN memMaps[memArc[g]] : mem_get(lastInsert.handle, h).some
    /\ mem_get(lastInsert.handle, lastInsert.hash).some

(***************************************************************************)
(* The RwLock around the index while a save or a sweep is under way.       *)
(***************************************************************************)
\* the first half of save_internal: self.snapshot() builds the three
\* sequences under the read guard `this`, dropped when snapshot returns
SaveSnapshot ==
    /\ pending = <<>>
    /\ npersist < MaxPersist
    /\ pending' = <<snapshot(db)>>
    /\ saved' = db
    /\ lock' = (lock \cup {"save"}) \ {"save"}
    /\ UNCHANGED <<db, handles, lastUnion, memVars, sweepVars, dir, npersist, building, given,
                   faults, loaded>>

\* the second half of save_internal: snapshot.persist(dir), all file writes
SavePersist ==
    /\ pending # <<>>
    /\ dir' = persist(dir, pending[1]).dir
    /\ pending' = <<>>
    /\ npersist' = npersist + 1
    /\ UNCHANGED <<storeVars, sweepVars, saved, building, given, faults, loaded>>

LockInit ==
    /\ db = SweepStartDb
    /\ handles = {1}
    /\ lastUnion = [handle |-> 1, map |-> EmptyMap]
    /\ lock = {}
    /\ MemIdle
    /\ SweepIdle
    /\ DiskIdle

\* a sweep and saves of an index that union_with extends meanwhile
LockNext ==
    \/ Validate0Copy
    \/ SendStarting
    \/ \E i \in 1..MaxContent : Pull(i)
    \/ \E i \in 1..MaxContent : SendEntry(i)
    \/ \E i \in 1..MaxContent : WorkOpen(i)
    \/ \E i \in 1..MaxContent : WorkEnd(i)
    \/ \E i \in 1..MaxContent : SendDone(i)
    \/ Finish
    \/ Recv
    \/ RxClose
    \/ SaveSnapshot
    \/ SavePersist
    \/ \E m \in SweepInputs : UnionWith(1, m)

SpecLock == LockInit /\ [][LockNext]_vars

\* C16: while a sweep is past its copy of the index (sending, verifying, or
\* waiting for room in the channel), and while a save has taken its
\* snapshot and is writing files, no operation holds the read lock and a
\* union_with can take its step.
C16_LockReleasedBeforeIO ==
    (result \in {"starting", "running"} \/ pending # <<>>) =>
        /\ lock = {}
        /\ \A m \in SweepInputs : ENABLED UnionWith(1, m)

\* a union_with completed after the sweep took its copy and the save its
\* snapshot, while the save had files to write and the sweep waited, with an
\* entry to announce, for room in the full channel
C16_Witness ==
    /\ result = "running"
    /\ rx = "open"
    /\ Queued = Capacity
    /\ \E i \in Ids : pc[i] = "entry"
    /\ pending # <<>>
    /\ DOMAIN db # DOMAIN copied
    /\ db # saved

(***************************************************************************)
(* Database::from_snapshot over snapshots of any shape.                    *)
(***************************************************************************)
\* what a snapshot holds for the content c: in the paths sequence nothing,
\* an element without a path or one with a path; in the outboard and in the
\* collection sequence nothing, an element, or one that failed to read
SnapChoices(c) ==
    [p : {<<>>, <<(<<HashOf(c), SizeOf(c), NoPath>>)>>, <<(<<HashOf(c), SizeOf(c), MaxPath>>)>>},
     o : {<<>>, <<OkItem(HashOf(c), OutboardOf(c))>>, <<ErrItem>>},
     c : {<<>>, <<OkItem(HashOf(c), c)>>, <<ErrItem>>}]

\* the snapshots handed to from_snapshot: one choice for each content but the last
SnapInputs ==
    {[paths |-> Flatten([c \in 1..(MaxContent - 1) |-> f[c].p]),
      outboards |-> Flatten([c \in 1..(MaxContent - 1) |-> f[c].o]),
      collections |-> Flatten([c \in 1..(MaxContent - 1) |-> f[c].c])] :
        f \in {g \in [1..(MaxContent - 1) -> UNION {SnapChoices(c) : c \in Contents}] :
                  \A c \in 1..(MaxContent - 1) : g[c] \in SnapChoices(c)}}

\* Database::from_snapshot(snapshot) on the snapshot at hand
FromSnapshot ==
    /\ given # <<>>
    /\ LET r == from_snapshot(given[1])
       IN loaded' = [status |-> IF r.ok THEN "ok" ELSE "err", error |-> r.error,
                     db |-> r.db, of |-> EmptyMap, first |-> FALSE, again |-> FALSE, from |-> NoDir]
    /\ UNCHANGED <<storeVars, sweepVars, dir, saved, npersist, pending, building, given, faults>>

SnapInit ==
    /\ db = EmptyMap
    /\ handles = {1}
    /\ lastUnion = [handle |-> 1, map |-> EmptyMap]
    /\ lock = {}
    /\ MemIdle
    /\ SweepIdle
    /\ dir = NoDir
    /\ saved = EmptyMap
    /\ npersist = 0
    /\ pending = <<>>
    /\ building = NoBuild
    /\ given \in {<<snap>> : snap \in SnapInputs}
    /\ faults = [crash |-> 0, damage |-> 0]
    /\ loaded = [status |-> "none", error |-> None, db |-> EmptyMap, of |-> EmptyMap,
                 first |-> FALSE, again |-> FALSE, from |-> NoDir]

SnapNext == FromSnapshot

SpecSnap == SnapInit /\ [][SnapNext]_vars

\* the hashes of the elements of an outboard or collection sequence
ItemHashes(items) == {items[k].hash : k \in {j \in 1..Len(items) : items[j].ok}}

\* the bytes the sequence supplies for the hash h
ItemBytes(items, h) ==
    items[CHOOSE k \in 1..Len(items) :
            /\ items[k].ok
            /\ items[k].hash = h
            /\ \A j \in (k + 1)..Len(items) : ~(items[j].ok /\ items[j].hash = h)].bytes

\* C17: in the Database from_snapshot built, every paths element with a
\* path whose hash has an outboard is an External entry with that path and
\* size, also when a collection buffer of the same hash is in the snapshot;
\* and an Internal entry is there only for a hash with a paths element
\* without a path, a collection buffer and an outboard.
C17_PathMeansExternal ==
    (loaded.status = "ok" /\ given # <<>>) =>
        LET snap == given[1]
        IN /\ \A k \in 1..Len(snap.paths) :
                 (snap.paths[k][3] # NoPath /\ snap.paths[k][1] \in ItemHashes(snap.outboards)) =>
                     /\ snap.paths[k][1] \in DOMAIN loaded.db
                     /\ loaded.db[snap.paths[k][1]] =
                            External(ItemBytes(snap.outboards, snap.paths[k][1]),
                                     snap.paths[k][3], snap.paths[k][2])
           /\ \A h \in DOMAIN loaded.db :
                 ~is_external(loaded.db[h]) =>
                     /\ \E k \in 1..Len(snap.paths) :
                           snap.paths[k][1] = h /\ snap.paths[k][3] = NoPath
                     /\ h \in ItemHashes(snap.collections)
                     /\ h \in ItemHashes(snap.outboards)

\* C18: from_snapshot succeeds whenever every element of the outboard and
\* of the collection sequence was read, whether or not a paths element or
\* a collection buffer lacks an outboard; the Database it builds holds
\* entries only for hashes that have an outboard in the snapshot, each with
\* exactly the outboard bytes supplied for its hash.
C18_NoOutboardNoEntry ==
    (given # <<>> /\ loaded.status # "none") =>
        /\ (AllOk(given[1].outboards) /\ AllOk(given[1].collections)) => loaded.status = "ok"
        /\ loaded.status = "ok" =>
              \A h \in DOMAIN loaded.db :
                  /\ h \in ItemHashes(given[1].outboards)
                  /\ loaded.db[h].outboard = ItemBytes(given[1].outboards, h)

\* from_snapshot succeeded on a snapshot in which a paths element with a
\* path has no outboard: the Database holds the other hash only
C18_Witness ==
    /\ given # <<>>
    /\ loaded.status = "ok"
    /\ loaded.db # EmptyMap
    /\ \E k \in 1..Len(given[1].paths) :
          /\ given[1].paths[k][3] # NoPath
          /\ given[1].paths[k][1] \notin ItemHashes(given[1].outboards)
          /\ given[1].paths[k][1] \notin DOMAIN loaded.db
    /\ \E h \in ItemHashes(given[1].collections) :
          /\ h \notin ItemHashes(given[1].outboards)
          /\ h \notin DOMAIN loaded.db

\* the files of collections/ in d that load reads: no directory, a name
\* that is the hex of a 32-byte hash, a hash the paths file lists
Eligible(d) ==
    {name \in DOMAIN d.collections :
        /\ ~d.collections[name].is_dir
        /\ parse_name(name).ok
        /\ parse_name(name).hash \in ListedIn(d)}

\* C20: a load of a directory in which every listed hash has a readable
\* outboard file and every eligible file of collections/ is readable
\* succeeds, whatever else collections/ holds; the collection sequence it
\* hands to from_snapshot holds exactly the eligible files; and the hashes
\* of the loaded Database are among those the paths file lists.
C20_ScanSkipsStrays ==
    (loaded.status # "none" /\ loaded.from.paths.exists
        /\ DeserializePaths(loaded.from.paths.bytes).ok) =>
        /\ ~LostFile(loaded.from) => loaded.status = "ok"
        /\ given # <<>>
        /\ loaded.status = "ok" =>
              /\ ItemHashes(given[1].collections)
                    = {parse_name(name).hash : name \in Eligible(loaded.from)}
              /\ Len(given[1].collections) = Cardinality(Eligible(loaded.from))
              /\ DOMAIN loaded.db \subseteq ListedIn(loaded.from)

\* a load succeeded on a directory whose collections/ held a subdirectory
\* or a file with a name that is no hash, a file of a hash the paths file
\* does not list, and the file of an Internal entry, which was loaded
C20_Witness ==
    /\ loaded.status = "ok"
    /\ \E name \in DOMAIN loaded.from.collections :
          loaded.from.collections[name].is_dir \/ ~parse_name(name).ok
    /\ \E name \in DOMAIN loaded.from.collections :
          /\ ~loaded.from.collections[name].is_dir
          /\ parse_name(name).ok
          /\ parse_name(name).hash \notin ListedIn(loaded.from)
    /\ \E h \in DOMAIN loaded.db : ~is_external(loaded.db[h])


(***************************************************************************)
(* Database::snapshot step by step, while union_with is called.            *)
(***************************************************************************)
\* snapshot that takes the read lock anew for each sequence instead of
\* holding one guard across the three
SnapshotLockPerSequence ==
    /\ building.step = 0
    /\ building' = [NoBuild EXCEPT !.step = 1]
    /\ UNCHANGED <<storeVars, sweepVars, dir, saved, npersist, pending, given, faults, loaded>>

\* let this = self.0.read().unwrap(): the read guard, granted at once unless
\* a writer holds the lock, and a union_with holds it for one step only
SnapshotLock ==
    /\ building.step = 0
    /\ lock' = lock \cup {"save"}
    /\ building' = [NoBuild EXCEPT !.step = 1]
    /\ UNCHANGED <<db, handles, lastUnion, memVars, sweepVars, dir, saved, npersist, pending,
                   given, faults, loaded>>

\* let outboards = this.iter().map(..).collect::<Vec<_>>()
SnapshotOutboards ==
    /\ building.step = 1
    /\ building' = [building EXCEPT !.step = 2, !.outboards = snapshot(db).outboards]
    /\ UNCHANGED <<storeVars, sweepVars, dir, saved, npersist, pending, given, faults, loaded>>

\* let collections = this.iter().filter_map(..).collect::<Vec<_>>()
SnapshotCollections ==
    /\ building.step = 2
    /\ building' = [building EXCEPT !.step = 3, !.collections = snapshot(db).collections]
    /\ UNCHANGED <<storeVars, sweepVars, dir, saved, npersist, pending, given, faults, loaded>>

\* let paths = this.iter().map(..).collect::<Vec<_>>()
SnapshotPaths ==
    /\ building.step = 3
    /\ building' = [building EXCEPT !.step = 4, !.paths = snapshot(db).paths]
    /\ UNCHANGED <<storeVars, sweepVars, dir, saved, npersist, pending, given, faults, loaded>>

\* Snapshot { outboards, collections, paths } is returned and the guard
\* `this` goes out of scope; the caller holds the snapshot
SnapshotReturn ==
    /\ building.step = 4
    /\ pending' = <<[outboards |-> building.outboards, collections |-> building.collections,
                     paths |-> building.paths]>>
    /\ saved' = db
    /\ building' = NoBuild
    /\ lock' = lock \ {"save"}
    /\ UNCHANGED <<db, handles, lastUnion, memVars, sweepVars, dir, npersist, given, faults,
                   loaded>>

\* the maps handed to union_with while snapshots are taken: one entry each
ShotInputs == {m \in StoreInputs : Cardinality(DOMAIN m) = 1}

ShotInit == StoreInit

ShotNext ==
    \/ \E m \in ShotInputs : UnionWith(1, m)
    \/ SnapshotLock
    \/ SnapshotOutboards
    \/ SnapshotCollections
    \/ SnapshotPaths
    \/ SnapshotReturn

SpecShot == ShotInit /\ [][ShotNext]_vars

\* the hashes of a sequence of Ok((hash, bytes)) items
ShotHashes(items) == {items[k].hash : k \in 1..Len(items)}

\* C21: the three sequences of a returned Snapshot describe one state of the
\* index, also when union_with is called while snapshot() runs: the paths
\* sequence and the outboard sequence hold the same hashes, once each, the
\* collection sequence holds exactly the hashes of the paths elements without
\* a path, and the whole Snapshot is the one of the index as it was when
\* snapshot() returned; the index does not change while the guard is held.
C21_SnapshotOneState ==
    /\ pending # <<>> =>
         LET s == pending[1]
         IN /\ {s.paths[k][1] : k \in 1..Len(s.paths)} = ShotHashes(s.outboards)
            /\ Len(s.paths) = Cardinality(ShotHashes(s.outboards))
            /\ Len(s.outboards) = Len(s.paths)
            /\ ShotHashes(s.collections) =
                 {s.paths[k][1] : k \in {j \in 1..Len(s.paths) : s.paths[j][3] = NoPath}}
            /\ Len(s.collections) = Cardinality(ShotHashes(s.collections))
            /\ s = snapshot(saved)
    /\ building.step >= 2 => building.outboards = snapshot(db).outboards

\* a snapshot() call has built two of its sequences, of an index holding an
\* External and an Internal entry, the latest union_with having put in one of
\* them after the previous snapshot was returned
C21_Witness ==
    /\ building.step = 3
    /\ pending # <<>>
    /\ Len(building.collections) >= 1
    /\ Len(building.outboards) > Len(building.collections)
    /\ db # saved
    /\ DOMAIN lastUnion.map \subseteq DOMAIN db \ DOMAIN saved
    /\ lastUnion.map # EmptyMap


(***************************************************************************)
(* The sweep under a scheduler that runs what can run.                     *)
(***************************************************************************)
\* the indexes swept: an entry in a file and one in memory, both intact; or
\* an entry in memory whose bytes are not its own and an intact one in a file
LiveDbs ==
    {SweepStartDb,
     [h \in {HashOf(1), HashOf(MaxContent)} |->
         IF h = HashOf(1) THEN BadInternal(1) ELSE GoodExternal(MaxContent, MaxPath)]}

\* the caller's channel has any capacity from 1 on, the machine any number
\* of cpus from 1 on
LiveInit ==
    /\ db \in LiveDbs
    /\ handles = {1}
    /\ lastUnion = [handle |-> 1, map |-> EmptyMap]
    /\ lock = {}
    /\ capacity \in 1..Capacity
    /\ num_cpus \in 1..Workers
    /\ fs = [p \in Paths |-> InitFile(p)]
    /\ tampers = 0
    /\ result = "idle"
    /\ data = <<>>
    /\ copied = EmptyMap
    /\ pc = <<>>
    /\ off = <<>>
    /\ werr = <<>>
    /\ sent = <<>>
    /\ nrecv = 0
    /\ rx = "open"
    /\ DiskIdle
    /\ MemIdle

LiveNext ==
    \/ Validate0Copy
    \/ SendStarting
    \/ \E i \in 1..MaxContent : Pull(i)
    \/ \E i \in 1..MaxContent : SendEntry(i)
    \/ \E i \in 1..MaxContent : WorkOpen(i)
    \/ \E i \in 1..MaxContent : Progress(i)
    \/ \E i \in 1..MaxContent : WorkEnd(i)
    \/ \E i \in 1..MaxContent : Crash(i)
    \/ \E i \in 1..MaxContent : SendDone(i)
    \/ \E i \in 1..MaxContent : JoinCrash(i)
    \/ Finish
    \/ Recv
    \/ RxClose

\* the runtime polls validate0 whenever one of its futures can advance, the
\* blocking pool runs every task it was given, and the caller takes a
\* message whenever one is queued
LiveFairness ==
    /\ WF_vars(SendStarting)
    /\ WF_vars(Finish)
    /\ WF_vars(Recv)
    /\ \A i \in 1..MaxContent :
          /\ WF_vars(Pull(i))
          /\ WF_vars(SendEntry(i))
          /\ WF_vars(WorkOpen(i))
          /\ WF_vars(WorkEnd(i))
          /\ WF_vars(SendDone(i))

SpecLive == LiveInit /\ [][LiveNext]_vars /\ LiveFairness

\* validate has returned Ok and every entry of the copy has its Done message
SweptAll == result = "ok" /\ \A i \in Ids : Positions("Done", i - 1) # {}

\* C23: a sweep that has started, over a channel of any capacity from 1 on and
\* with any number of workers from 1 on, eventually returns Ok with a Done
\* sent for every entry, unless the receiver is closed or a work unit
\* panics: the bounded channel and the bounded pool never block it for good.
C23_SweepTerminates ==
    (result = "starting") ~> (SweptAll \/ rx = "closed" \/ Crashed # {})

\* a sweep of more entries than workers over a channel of capacity 1 returned
\* Ok, the receiver open and everything delivered: a progress callback found
\* the channel full, and one entry's Done reports a verification error
C23_Witness ==
    /\ SweptAll
    /\ rx = "open"
    /\ Crashed = {}
    /\ nrecv = Len(sent)
    /\ capacity = 1
    /\ num_cpus = 1
    /\ Len(data) > num_cpus
    /\ \E i \in Ids : off[i] = MaxOffset /\ Positions("Progress", i - 1) = {}
    /\ \E k \in 1..Len(sent) : sent[k].kind = "Done" /\ sent[k].error # None

====
